---- MODULE Spec2Model ----
(***************************************************************************)
(* Model of sphinx_gha/ext.py: the gh-actions Sphinx domain (its object    *)
(* registry and cross-reference resolvers) and the directives that         *)
(* document actions, workflows and their items from YAML.                  *)
(*                                                                         *)
(* Python strings that the code takes apart (names, targets, types, path   *)
(* components) are sequences of symbols: a symbol is a separator character *)
(* (".", "-", ":", " ", "\t") or a separator-free run of characters.  The  *)
(* empty sequence is the empty string.  Texts that the code only passes on *)
(* (option values, titles, messages) are TLA+ strings.                     *)
(***************************************************************************)
EXTENDS Naturals, Sequences, FiniteSets, TLC

VARIABLES
    objects,      \* GHActionsDomain.data['objects']: the registry
    std_objects,  \* StandardDomain objects noted by ActionEnvDirective
    docname,      \* env.docname: the document being read
    document_ids, \* state.document.ids: the ids taken in the document being read
    config,       \* env.config: sphinx_gha_repo_root, _repo_slug, _repo_ref
    ref_context,  \* env.ref_context, the two keys this code uses
    phase,        \* the build's phase: "reading" documents or "resolving" references
    out           \* what the last operation returned, rendered, logged or raised

vars == <<objects, std_objects, docname, document_ids, config, ref_context, phase, out>>

-----------------------------------------------------------------------------
(* Python values *)

\* The element of a one-element set.  Only({F(x) : x \in {e}}) is F(e) with e
\* evaluated once, whatever the number of times F reads x.
Only(S) == CHOOSE x \in S : TRUE

\* Python's None where a string is expected
None == <<"None">>

\* bool(s) of an Optional[str]: None and '' are false
Truthy(s) == s # None /\ s # <<>>

\* '.' in s, that is len(s.split('.')) > 1
HasDot(s) == \E i \in 1..Len(s) : s[i] = "."

\* len(target.split('.')) == 1
SplitDotLenIsOne(s) == ~HasDot(s)

\* filter(None, parts)
FilterNone(parts) == SelectSeq(parts, Truthy)

\* '.'.join(parts)
RECURSIVE JoinDot(_)
JoinDot(parts) ==
    IF parts = <<>> THEN <<>>
    ELSE IF Len(parts) = 1 THEN parts[1]
    ELSE parts[1] \o <<".">> \o JoinDot(Tail(parts))

\* s.split(':')[-1]: what follows the last ':'
RECURSIVE AfterLastColon(_)
AfterLastColon(s) ==
    IF \E i \in 1..Len(s) : s[i] = ":"
    THEN AfterLastColon(Tail(s))
    ELSE s

\* s.startswith(prefix)
StartsWith(s, prefix) ==
    /\ Len(s) >= Len(prefix)
    /\ SubSeq(s, 1, Len(prefix)) = prefix

Whitespace == {" ", "\t"}

\* ws_re.sub(' ', s): every run of whitespace becomes one space
RECURSIVE WsSub(_)
WsSub(s) ==
    IF s = <<>> THEN <<>>
    ELSE IF Head(s) \in Whitespace
         THEN IF Len(s) > 1 /\ s[2] \in Whitespace
              THEN WsSub(Tail(s))
              ELSE <<" ">> \o WsSub(Tail(s))
         ELSE <<Head(s)>> \o WsSub(Tail(s))

-----------------------------------------------------------------------------
(* GHActionsDomain: names *)

TYP_ACTION == <<"action">>
TYP_ACTION_INPUT == <<"action", "-", "input">>
TYP_ACTION_OUTPUT == <<"action", "-", "output">>
TYP_ACTION_ENVVAR == <<"action", "-", "envvar">>
TYP_WORKFLOW == <<"workflow">>
TYP_WORKFLOW_INPUT == <<"workflow", "-", "input">>
TYP_WORKFLOW_SECRET == <<"workflow", "-", "secret">>
TYP_WORKFLOW_OUTPUT == <<"workflow", "-", "output">>

\* GHActionsDomain.directives / roles / object_types, in declaration order
object_types ==
    << TYP_ACTION, TYP_ACTION_INPUT, TYP_ACTION_OUTPUT, TYP_ACTION_ENVVAR,
       TYP_WORKFLOW, TYP_WORKFLOW_INPUT, TYP_WORKFLOW_SECRET, TYP_WORKFLOW_OUTPUT >>

ROLE_ACTION == "gh-actions:action"
ROLE_WORKFLOW == "gh-actions:workflow"
Roles == {ROLE_ACTION, ROLE_WORKFLOW}

\* GHActionsDomain.initial_data
initial_data == [objects |-> <<>>]

\* An entry of the registry
Entry(name, dispname, typ, doc, anchor, prio) ==
    [name |-> name, dispname |-> dispname, typ |-> typ,
     docname |-> doc, anchor |-> anchor, prio |-> prio]

\* GHActionsDomain.get_objects
get_objects(objs) == objs

\* GHActionsDomain.get_full_qualified_name; node is the reference node's
\* attributes, a missing attribute being None
get_full_qualified_name(node) ==
    LET parent_name == IF Truthy(node[ROLE_ACTION]) THEN node[ROLE_ACTION]
                       ELSE node[ROLE_WORKFLOW]
        target == node.reftarget
    IN  IF target = None THEN None
        ELSE JoinDot(FilterNone(<<parent_name, target>>))

\* The lookup that takes the action context for every item type
QualifiedTargetActionOnly(typ, target, node) ==
    LET typ_name == AfterLastColon(typ)
    IN  IF SplitDotLenIsOne(target)
        THEN LET parent_name ==
                     IF StartsWith(typ_name, <<"action", "-">>)
                        \/ StartsWith(typ_name, <<"workflow", "-">>)
                     THEN node[ROLE_ACTION]
                     ELSE None
             IN  JoinDot(FilterNone(<<parent_name, target>>))
        ELSE target

\* resolve_xref, lines 469-479: the name the target is looked up under
QualifiedTarget(typ, target, node) ==
    LET typ_name == AfterLastColon(typ)
    IN  IF SplitDotLenIsOne(target)
        THEN LET parent_name ==
                     IF StartsWith(typ_name, <<"action", "-">>)
                     THEN node[ROLE_ACTION]
                     ELSE IF StartsWith(typ_name, <<"workflow", "-">>)
                          THEN node[ROLE_WORKFLOW]
                          ELSE None
             IN  JoinDot(FilterNone(<<parent_name, target>>))
        ELSE target

\* resolve_xref, lines 481-483: the (docname, anchor) of the matching entries
RECURSIVE Matches(_, _, _)
Matches(objs, target, typ) ==
    IF objs = <<>> THEN <<>>
    ELSE LET e == Head(objs)
             rest == Matches(Tail(objs), target, typ)
         IN  IF e.name = target /\ e.typ = typ
             THEN << <<e.docname, e.anchor>> >> \o rest
             ELSE rest

\* No reference
NoRef == [ref |-> FALSE]

\* sphinx.util.nodes.make_refnode as this code calls it
make_refnode(fromdocname, todocname, targetid, title) ==
    [ref |-> TRUE, fromdocname |-> fromdocname, refdocname |-> todocname,
     refid |-> targetid, reftitle |-> title]

\* The documents a 'more than one target' warning lists
WarningDocs(matches) == [i \in 1..Len(matches) |-> matches[i][1]]

\* resolve_xref, lines 485-502: what is made of the matches
ResolveMatches(matches, fromdocname, dispname, qualified) ==
    IF matches = <<>>
    THEN [node |-> NoRef, warnings |-> <<>>, target |-> qualified]
    ELSE [node |-> make_refnode(fromdocname, matches[1][1], matches[1][2], dispname),
          warnings |-> IF Len(matches) > 1
                       THEN << [target |-> qualified, docs |-> WarningDocs(matches)] >>
                       ELSE <<>>,
          target |-> qualified]

\* resolve_xref that refers to the last of the matches
resolve_xref_last(objs, fromdocname, typ, target, node) ==
    LET qualified == QualifiedTarget(typ, target, node)
        matches == Matches(get_objects(objs), qualified, typ)
    IN  ResolveMatches(IF matches = <<>> THEN <<>>
                       ELSE <<matches[Len(matches)]>> \o SubSeq(matches, 1, Len(matches) - 1),
                       fromdocname, target, qualified)

\* GHActionsDomain.resolve_xref: the node returned, the warnings logged, and
\* the name the target was looked up under
resolve_xref(objs, fromdocname, typ, target, node) ==
    Only({ResolveMatches(Matches(get_objects(objs), qualified, typ), fromdocname, target, qualified)
          : qualified \in {QualifiedTarget(typ, target, node)}})

\* The step that puts a match in front of the earlier ones
ResolveAnyStepInFront(acc, typ, match) ==
    [matches |-> IF match.node # NoRef THEN <<<<typ, match.node>>>> \o acc.matches
                 ELSE acc.matches,
     warnings |-> acc.warnings \o match.warnings]

\* resolve_any_xref, lines 509-511: one type is tried
ResolveAnyStep(acc, typ, match) ==
    [matches |-> IF match.node # NoRef THEN Append(acc.matches, <<typ, match.node>>)
                 ELSE acc.matches,
     warnings |-> acc.warnings \o match.warnings]

\* GHActionsDomain.resolve_any_xref: the loop over object_types from position i
RECURSIVE ResolveAnyFrom(_, _, _, _, _, _)
ResolveAnyFrom(i, acc, objs, fromdocname, target, node) ==
    IF i > Len(object_types) THEN acc
    ELSE Only({ResolveAnyFrom(i + 1, a, objs, fromdocname, target, node)
               : a \in {ResolveAnyStep(acc, object_types[i],
                             resolve_xref(objs, fromdocname, object_types[i], target, node))}})

\* GHActionsDomain.resolve_any_xref
resolve_any_xref(objs, fromdocname, target, node) ==
    ResolveAnyFrom(1, [matches |-> <<>>, warnings |-> <<>>], objs, fromdocname, target, node)

\* note_object that keeps one entry for each name and type
note_object_by_name(objs, doc, name, dispname, typ, anchor) ==
    IF \E i \in 1..Len(objs) : objs[i].name = name /\ objs[i].typ = typ
    THEN [i \in 1..Len(objs) |->
            IF objs[i].name = name /\ objs[i].typ = typ
            THEN Entry(name, dispname, typ, doc, anchor, 1) ELSE objs[i]]
    ELSE Append(objs, Entry(name, dispname, typ, doc, anchor, 1))

\* GHActionsDomain.note_object
note_object(objs, doc, name, dispname, typ, anchor) ==
    Append(objs, Entry(name, dispname, typ, doc, anchor, 1))

-----------------------------------------------------------------------------
(* YAML values as yaml.full_load returns them *)

PyNone == [t |-> "None"]
PyBool(b) == [t |-> "bool", b |-> b]
PyInt(n) == [t |-> "int", n |-> n]
PyStr(s) == [t |-> "str", s |-> s]
\* A dict: its (key, value) pairs in insertion order
PyDict(items) == [t |-> "dict", items |-> items]

\* Keys of the top-level, 'on' and 'workflow_call' mappings: YAML 1.1 reads a
\* bare  on  as the boolean True
KeyStr(s) == [k |-> "str", s |-> s]
KeyBool(b) == [k |-> "bool", b |-> b]

\* bool(v)
PyTruthy(v) ==
    CASE v.t = "None" -> FALSE
      [] v.t = "bool" -> v.b
      [] v.t = "int"  -> v.n # 0
      [] v.t = "str"  -> v.s # ""
      [] v.t = "dict" -> v.items # <<>>

\* str(n) for the numbers the inputs hold
IntStr(n) == IF n = 0 THEN "0" ELSE IF n = 1 THEN "1" ELSE "2"

\* str(v)
PyToStr(v) ==
    CASE v.t = "None" -> "None"
      [] v.t = "bool" -> (IF v.b THEN "True" ELSE "False")
      [] v.t = "int"  -> IntStr(v.n)
      [] v.t = "str"  -> v.s
      [] v.t = "dict" -> (IF v.items = <<>> THEN "{}" ELSE "{...}")

\* k in d
DictHas(d, k) == \E i \in 1..Len(d.items) : d.items[i][1] = k

\* d.get(k): None when the key is missing
DictGet(d, k) ==
    IF DictHas(d, k)
    THEN d.items[CHOOSE i \in 1..Len(d.items) : d.items[i][1] = k][2]
    ELSE PyNone

\* a or b
PyOr(a, b) == IF PyTruthy(a) THEN a ELSE b

-----------------------------------------------------------------------------
(* ActionsItemDirective and its subclasses *)

\* The class attribute parent_role of the directive class of each type
parent_role(typ) ==
    IF typ \in {TYP_ACTION_INPUT, TYP_ACTION_OUTPUT, TYP_ACTION_ENVVAR}
    THEN ROLE_ACTION
    ELSE ROLE_WORKFLOW

\* The class attribute fields
fields(typ) ==
    CASE typ = TYP_ACTION_INPUT    -> <<"required", "default">>
      [] typ = TYP_ACTION_ENVVAR   -> <<"required">>
      [] typ = TYP_WORKFLOW_INPUT  -> <<"required", "default", "type">>
      [] typ = TYP_WORKFLOW_SECRET -> <<"required", "default", "type">>
      [] OTHER                     -> <<>>

\* The item classes in the order the module defines them, each with the dict
\* object its option_spec attribute resolves to when __init_subclass__ runs:
\* only ActionInputDirective declares a dict of its own, the others find the
\* dict of ActionsItemDirective
ItemClasses ==
    << [typ |-> TYP_ACTION_INPUT,    dict |-> "ActionInputDirective"],
       [typ |-> TYP_ACTION_OUTPUT,   dict |-> "ActionsItemDirective"],
       [typ |-> TYP_ACTION_ENVVAR,   dict |-> "ActionsItemDirective"],
       [typ |-> TYP_WORKFLOW_INPUT,  dict |-> "ActionsItemDirective"],
       [typ |-> TYP_WORKFLOW_SECRET, dict |-> "ActionsItemDirective"],
       [typ |-> TYP_WORKFLOW_OUTPUT, dict |-> "ActionsItemDirective"] >>

\* The option_spec dicts as the class bodies declare them
DeclaredOptionSpecs ==
    [ActionsItemDirective |-> {"description"},
     ActionInputDirective |-> {"deprecationMessage"}]

SeqToSet(s) == {s[i] : i \in 1..Len(s)}

\* ActionsItemDirective.__init_subclass__ run for the classes from position i:
\* |= updates the dict in place
InitSubclass(c, dicts) ==
    LET d1 == [dicts EXCEPT ![c.dict] = @ \cup SeqToSet(fields(c.typ))]
    IN  [d1 EXCEPT ![c.dict] = @ \cup d1.ActionsItemDirective]

RECURSIVE InitSubclasses(_, _)
InitSubclasses(i, dicts) ==
    IF i > Len(ItemClasses) THEN dicts
    ELSE Only({InitSubclasses(i + 1, d) : d \in {InitSubclass(ItemClasses[i], dicts)}})

\* cls.option_spec once the module is imported
option_spec(typ) ==
    LET dicts == InitSubclasses(1, DeclaredOptionSpecs)
        c == ItemClasses[CHOOSE i \in 1..Len(ItemClasses) : ItemClasses[i].typ = typ]
    IN  dicts[c.dict]

\* generate that passes on the values that are true only
RECURSIVE GenerateOptionsOfTrue(_, _)
GenerateOptionsOfTrue(typ, meta_items) ==
    IF meta_items = <<>> THEN <<>>
    ELSE LET k == Head(meta_items)[1]
             v == Head(meta_items)[2]
             rest == GenerateOptionsOfTrue(typ, Tail(meta_items))
         IN  IF k \in option_spec(typ) /\ PyTruthy(v)
             THEN << <<k, PyStr(PyToStr(v))>> >> \o rest
             ELSE rest

\* ActionsItemDirective.generate, line 74: the options made of the metadata
RECURSIVE GenerateOptions(_, _)
GenerateOptions(typ, meta_items) ==
    IF meta_items = <<>> THEN <<>>
    ELSE LET k == Head(meta_items)[1]
             v == Head(meta_items)[2]
             rest == GenerateOptions(typ, Tail(meta_items))
         IN  IF k \in option_spec(typ)
             THEN << <<k, PyStr(PyToStr(v))>> >> \o rest
             ELSE rest

\* handle_signature that forgets the parent
ItemHandleSignatureUnqualified(ctx, typ, sig) ==
    [name |-> WsSub(sig), sig_name |-> sig, fullname |-> sig]

\* ActionsItemDirective.handle_signature: the name returned and what the
\* signature node is given
ItemHandleSignature(ctx, typ, sig) ==
    LET parent == ctx[parent_role(typ)]
    IN  [name |-> WsSub(sig),
         sig_name |-> sig,
         fullname |-> IF Truthy(parent) THEN parent \o <<".">> \o sig ELSE sig]

\* sphinx.util.nodes.make_id: the id made of prefix and term, or a serial
\* one when the document has that id already
make_id(ids, prefix, term) ==
    LET plain == [prefix |-> prefix, term |-> term, serial |-> 0]
    IN  IF plain \notin ids THEN plain
        ELSE [prefix |-> prefix, term |-> term,
              serial |-> CHOOSE n \in 1..(Cardinality(ids) + 1) :
                  /\ [prefix |-> prefix, term |-> term, serial |-> n] \notin ids
                  /\ \A m \in 1..(n - 1) :
                        [prefix |-> prefix, term |-> term, serial |-> m] \in ids]

\* StandardDomain.note_object: one entry per (objtype, name), the last wins
StdNoteObject(std, objtype, name, doc, labelid) ==
    {e \in std : ~(e.objtype = objtype /\ e.name = name)}
        \cup {[objtype |-> objtype, name |-> name, docname |-> doc, labelid |-> labelid]}

\* ActionsItemDirective.add_target_and_index, and ActionEnvDirective's, which
\* also notes the item as an envvar of the std domain.  st holds the registry,
\* the std objects and the document's ids.
ItemAddTargetAndIndex(st, doc, typ, name, sig_node) ==
    LET node_id == make_id(st.document_ids, typ, name)
        ids1 == st.document_ids \cup {node_id}
        noted == [objects |-> note_object(st.objects, doc, sig_node.fullname,
                                          sig_node.sig_name, typ, node_id),
                  std_objects |-> st.std_objects,
                  document_ids |-> ids1]
    IN  IF typ = TYP_ACTION_ENVVAR
        THEN [noted EXCEPT !.std_objects =
                  StdNoteObject(st.std_objects, "envvar", sig_node.fullname, doc,
                                make_id(ids1, <<"envvar">>, name))]
        ELSE noted

\* field_name.title()
Title(field_name) ==
    CASE field_name = "required" -> "Required"
      [] field_name = "default"  -> "Default"
      [] field_name = "type"     -> "Type"

\* ActionsItemDirective.format_field
format_field(field_name, field_value) ==
    [t |-> "field", name |-> Title(field_name), value |-> field_value]

\* ActionsItemDirective.transform_content, lines 138-142: the fields from position i
RECURSIVE FieldRows(_, _, _)
FieldRows(i, flds, options) ==
    IF i > Len(flds) THEN <<>>
    ELSE LET field_value == DictGet(options, flds[i])
             rest == FieldRows(i + 1, flds, options)
         IN  IF PyTruthy(field_value)
             THEN <<format_field(flds[i], field_value.s)>> \o rest
             ELSE rest

\* MarkdownParsingMixin.parse_markdown: the nodes the text is rendered to
parse_markdown(markdown) == << [t |-> "markdown", text |-> markdown] >>

\* ActionsItemDirective.transform_content: the children of the content node
BaseItemTransformContent(typ, options, content) ==
    LET rows == FieldRows(1, fields(typ), options)
        c1 == IF Len(rows) > 0
              THEN << [t |-> "field_list", rows |-> rows] >> \o content
              ELSE content
        description == DictGet(options, "description")
    IN  IF PyTruthy(description)
        THEN c1 \o parse_markdown(description.s)
        ELSE c1

\* ActionsItemDirective.format_deprecationMessage
format_deprecationMessage(message) ==
    [t |-> "admonition", type |-> "deprecated", title |-> "Deprecated",
     message |-> message]

\* transform_content of the directive class of typ (ActionInputDirective
\* overrides it)
ItemTransformContent(typ, options, content) ==
    LET c == BaseItemTransformContent(typ, options, content)
        deprecation_message == DictGet(options, "deprecationMessage")
    IN  IF typ = TYP_ACTION_INPUT /\ PyTruthy(deprecation_message)
        THEN <<format_deprecationMessage(deprecation_message.s)>> \o c
        ELSE c

\* ObjectDescription.run for an item directive with one signature: the hooks
\* in the order the host calls them.  Returns the state and the desc node.
ItemRun(st, ctx, doc, typ, sig, options, body) ==
    LET sig_node == ItemHandleSignature(ctx, typ, sig)
        st1 == ItemAddTargetAndIndex(st, doc, typ, sig_node.name, sig_node)
    IN  [st |-> st1,
         node |-> [t |-> "desc", objtype |-> typ, sig |-> sig,
                   fullname |-> sig_node.fullname,
                   content |-> ItemTransformContent(typ, PyDict(options), body)]]

-----------------------------------------------------------------------------
(* Paths: a pathlib.Path is the sequence of its components below "/" *)

\* Path.name: the last component, '' for the root
PathName(path) == IF path = <<>> THEN <<>> ELSE path[Len(path)]

\* Path.parent
PathParent(path) == IF path = <<>> THEN <<>> ELSE SubSeq(path, 1, Len(path) - 1)

\* Path.stem: the name without its last suffix; a leading or trailing dot
\* starts no suffix
PathStem(path) ==
    LET name == PathName(path)
        dots == {i \in 1..Len(name) : name[i] = "."}
    IN  IF dots = {} THEN name
        ELSE LET i == CHOOSE d \in dots : \A e \in dots : e <= d
             IN  IF 1 < i /\ i < Len(name) THEN SubSeq(name, 1, i - 1) ELSE name

\* '/'.join(components)
RECURSIVE JoinSlash(_)
JoinSlash(parts) ==
    IF parts = <<>> THEN <<>>
    ELSE IF Len(parts) = 1 THEN parts[1]
    ELSE parts[1] \o <<"/">> \o JoinSlash(Tail(parts))

\* str(path.relative_to(root)) for a path below root: '.' for root itself
RelativeTo(path, root) ==
    IF path = root THEN <<".">>
    ELSE JoinSlash(SubSeq(path, Len(root) + 1, Len(path)))

\* Path(config['sphinx_gha_repo_root'] or os.getcwd()).absolute()
RepoRoot(cfg) == IF cfg.repo_root = None THEN cfg.cwd ELSE cfg.repo_root

\* None where a path is expected
NoPath == <<None>>

ACTION_YML == <<"action", ".", "yml">>
ACTION_YAML == <<"action", ".", "yaml">>

-----------------------------------------------------------------------------
(* ActionsFileDirective, ActionDirective, WorkflowDirective *)

\* The class attribute role
role(typ) == IF typ = TYP_ACTION THEN ROLE_ACTION ELSE ROLE_WORKFLOW

\* docutils' Directive.error(message): builds the DirectiveError and returns
\* it; nothing is raised unless the caller raises what it is given
DirectiveError(message) == [level |-> 3, message |-> message]

\* ActionsFileDirective.path and ActionDirective.path.  fs tells what the
\* file system holds at repo_root / path.  Returns the path (None when there
\* is none) and the errors built on the way.
FilePath(typ, cfg, options, fs) ==
    IF options.path = NoPath THEN [path |-> NoPath, errors |-> <<>>]
    ELSE LET path == RepoRoot(cfg) \o options.path
         IN  IF typ = TYP_WORKFLOW THEN [path |-> path, errors |-> <<>>]
             ELSE IF fs.action_yml THEN [path |-> Append(path, ACTION_YML), errors |-> <<>>]
             ELSE IF fs.action_yaml THEN [path |-> Append(path, ACTION_YAML), errors |-> <<>>]
             ELSE IF fs.is_file THEN [path |-> path, errors |-> <<>>]
             ELSE [path |-> NoPath,
                   errors |-> <<DirectiveError("Could not find an action definition")>>]

\* ActionsFileDirective.id_from_path and ActionDirective.id_from_path
id_from_path(typ, path) ==
    IF typ = TYP_ACTION THEN PathName(PathParent(path)) ELSE PathStem(path)

\* ActionsFileDirective.id: the id (None when the property returns nothing)
\* and the errors built on the way
FileId(typ, arguments, p) ==
    IF Len(arguments) > 0 THEN [id |-> arguments[1], errors |-> <<>>]
    ELSE IF p.path # NoPath THEN [id |-> id_from_path(typ, p.path), errors |-> <<>>]
    ELSE [id |-> None,
          errors |-> <<DirectiveError("Neither a path nor name provided!")>>]

\* ActionsFileDirective.get_signatures
get_signatures(id) == <<id>>

\* handle_signature that leaves the reference context alone
FileHandleSignatureNoContext(ctx, typ, id, sig) ==
    IF sig = None
    THEN [raised |-> "ValueError", ctx |-> ctx, name |-> None,
          sig_name |-> None, fullname |-> None]
    ELSE [raised |-> "none", ctx |-> ctx,
          name |-> WsSub(sig), sig_name |-> sig, fullname |-> sig]

\* ActionsFileDirective.handle_signature: raises ValueError for a None
\* signature, before it touches the context
FileHandleSignature(ctx, typ, id, sig) ==
    IF sig = None
    THEN [raised |-> "ValueError", ctx |-> ctx, name |-> None,
          sig_name |-> None, fullname |-> None]
    ELSE [raised |-> "none", ctx |-> [ctx EXCEPT ![role(typ)] = id],
          name |-> WsSub(sig), sig_name |-> sig, fullname |-> sig]

\* ActionsFileDirective.add_target_and_index
FileAddTargetAndIndex(st, doc, typ, name, sig_node) ==
    LET node_id == make_id(st.document_ids, typ, name)
    IN  [objects |-> note_object(st.objects, doc, sig_node.fullname,
                                 sig_node.sig_name, typ, node_id),
         std_objects |-> st.std_objects,
         document_ids |-> st.document_ids \cup {node_id}]

\* ActionsFileDirective.yaml: the mapping loaded, or the exception of open().
\* An action's path is one that exists; a workflow's is whatever was given.
FileYaml(typ, p, fs) ==
    IF p.path = NoPath THEN [raised |-> "none", yaml |-> PyDict(<<>>)]
    ELSE IF typ = TYP_WORKFLOW /\ ~fs.is_file
         THEN [raised |-> "FileNotFoundError", yaml |-> PyNone]
         ELSE [raised |-> "none", yaml |-> fs.content]

\* d[k] = v
DictSet(d, k, v) ==
    IF DictHas(d, k)
    THEN PyDict([i \in 1..Len(d.items) |->
                    IF d.items[i][1] = k THEN <<k, v>> ELSE d.items[i]])
    ELSE PyDict(Append(d.items, <<k, v>>))

\* ActionDirective.example, lines 359-362: the example values of the items
\* from position i are put into d
ExampleValue(item, e, d) ==
    LET input_name == item[1]
        input_meta == PyOr(item[2], PyDict(<<>>))
        input_example == DictGet(input_meta, e)
    IN  IF PyTruthy(input_example) THEN DictSet(d, input_name, input_example) ELSE d

RECURSIVE ExampleValues(_, _, _, _)
ExampleValues(i, items, e, d) ==
    IF i > Len(items) THEN d
    ELSE Only({ExampleValues(i + 1, items, e, d1) : d1 \in {ExampleValue(items[i], e, d)}})

\* ActionDirective.example, lines 354-362, for one of the two keys
ExampleOf(yaml, k, d, e) ==
    LET action_inputs == DictGet(yaml, KeyStr(k))
    IN  IF PyTruthy(action_inputs) THEN ExampleValues(1, action_inputs.items, e, d)
        ELSE d

\* ActionDirective.example, lines 364-375: the step that is dumped
ExampleStep(name, slug, inputs, env) ==
    (IF PyTruthy(name) THEN << <<"name", name>> >> ELSE <<>>)
    \o << <<"uses", slug>> >>
    \o (IF PyTruthy(inputs) THEN << <<"with", inputs>> >> ELSE <<>>)
    \o (IF PyTruthy(env) THEN << <<"env", env>> >> ELSE <<>>)

\* The empty example
NoExample == [t |-> "str", s |-> ""]

\* ActionsFileDirective.example ('' always) and ActionDirective.example: the
\* example, the exception raised and the errors built on the way
FileExample(typ, cfg, options, p, fs) ==
    IF typ = TYP_WORKFLOW
    THEN [raised |-> "none", errors |-> <<>>, example |-> NoExample]
    ELSE IF PyTruthy(options.x_example)
    THEN [raised |-> "none", errors |-> <<>>, example |-> options.x_example]
    ELSE IF p.path = NoPath
    THEN [raised |-> "none", errors |-> <<>>, example |-> NoExample]
    ELSE
    LET slug0 == cfg.repo_slug
        errors == IF slug0 = None
                  THEN <<DirectiveError("No repo slug provided")>> ELSE <<>>
        relative_path == RelativeTo(PathParent(p.path), RepoRoot(cfg))
        action_ref == cfg.repo_ref
        concat == relative_path # <<".">> \/ Truthy(action_ref)
        slug1 == IF relative_path # <<".">> /\ slug0 # None
                 THEN slug0 \o <<"/">> \o relative_path ELSE slug0
        slug2 == IF Truthy(action_ref) /\ slug0 # None
                 THEN slug1 \o <<"@">> \o action_ref ELSE slug1
        y == FileYaml(typ, p, fs)
    IN  IF slug0 = None /\ concat
        THEN [raised |-> "TypeError", errors |-> errors, example |-> NoExample]
        ELSE
        LET name == DictGet(y.yaml, KeyStr("x-example-name"))
            inputs0 == PyOr(DictGet(y.yaml, KeyStr("x_example_inputs")), PyDict(<<>>))
            env0 == PyOr(DictGet(y.yaml, KeyStr("x_example_env")), PyDict(<<>>))
            env == ExampleOf(y.yaml, "x-env", env0, "example")
            inputs == ExampleOf(y.yaml, "inputs", inputs0, "x-example")
            uses == IF slug2 = None THEN PyNone ELSE [t |-> "text", s |-> slug2]
        IN  [raised |-> "none", errors |-> errors,
             example |-> [t |-> "dump", data |-> <<PyDict(ExampleStep(name, uses, inputs, env))>>]]

\* bool(example)
ExampleTruthy(example) == example.t = "dump" \/ PyTruthy(example)

\* ActionsFileDirective.transform_content.  acc holds the state, the content
\* node's children, the exception raised and the errors built so far.
BaseFileTransformContent(acc, typ, cfg, id, options, p, fs) ==
    LET y == FileYaml(typ, p, fs)
    IN  IF y.raised # "none" THEN [acc EXCEPT !.raised = y.raised]
        ELSE IF y.yaml.t # "dict" THEN [acc EXCEPT !.raised = "AttributeError"]
        ELSE
        LET description == DictGet(y.yaml, KeyStr("description"))
            c1 == IF PyTruthy(description)
                  THEN acc.content \o parse_markdown(description.s)
                  ELSE acc.content
            ex == FileExample(typ, cfg, options, p, fs)
            acc1 == [acc EXCEPT !.content = c1, !.errors = @ \o ex.errors]
        IN  IF ex.raised # "none" THEN [acc1 EXCEPT !.raised = ex.raised]
            ELSE IF ~ExampleTruthy(ex.example) THEN acc1
            ELSE IF id = None THEN [acc1 EXCEPT !.raised = "TypeError"]
            ELSE [acc1 EXCEPT !.content =
                     Append(@, [t |-> "section", title |-> "Example", of |-> id,
                                items |-> <<[t |-> "code", language |-> "yaml",
                                             code |-> ex.example]>>])]

\* ActionsFileDirective.format_item_list, lines 293-299: one item is
\* generated, by a run of the item directive
GenerateItem(acc, item, directive, ctx, doc) ==
    LET item_name == item[1]
        item_meta == IF item[2] = PyNone THEN PyDict(<<>>) ELSE item[2]
        r == ItemRun(acc.st, ctx, doc, directive, item_name,
                     GenerateOptions(directive, item_meta.items), <<>>)
    IN  [st |-> r.st, nodes |-> Append(acc.nodes, r.node)]

\* ActionsFileDirective.format_item_list, line 292: the loop from position i
RECURSIVE GenerateItems(_, _, _, _, _, _)
GenerateItems(i, items, directive, acc, ctx, doc) ==
    IF i > Len(items) THEN acc
    ELSE Only({GenerateItems(i + 1, items, directive, a, ctx, doc)
               : a \in {GenerateItem(acc, items[i], directive, ctx, doc)}})

\* ActionsFileDirective.format_item_list
format_item_list(acc, ctx, doc, id, title, directive, items) ==
    IF id = None THEN [acc EXCEPT !.raised = "TypeError"]
    ELSE IF items.t # "dict" THEN [acc EXCEPT !.raised = "AttributeError"]
    ELSE Only({[acc EXCEPT !.st = g.st,
                           !.content = Append(@, [t |-> "section", title |-> title,
                                                  of |-> id, items |-> g.nodes])]
               : g \in {GenerateItems(1, items.items, directive,
                                      [st |-> acc.st, nodes |-> <<>>], ctx, doc)}})

\* The item_lists of ActionDirective.transform_content and of
\* WorkflowDirective.transform_content
item_lists(typ) ==
    IF typ = TYP_ACTION
    THEN << <<"inputs", "Inputs", TYP_ACTION_INPUT>>,
            <<"outputs", "Outputs", TYP_ACTION_OUTPUT>>,
            <<"x-env", "Environment Variables", TYP_ACTION_ENVVAR>> >>
    ELSE << <<"inputs", "Inputs", TYP_WORKFLOW_INPUT>>,
            <<"secrets", "Secrets", TYP_WORKFLOW_SECRET>>,
            <<"outputs", "Outputs", TYP_WORKFLOW_OUTPUT>> >>

\* The body of the loop that renders every mapping that is there, empty or not
ItemSectionOfAny(list, node, acc, ctx, doc, id) ==
    LET item_list == DictGet(node, KeyStr(list[1]))
    IN  IF item_list # PyNone
        THEN format_item_list(acc, ctx, doc, id, list[2], list[3], item_list)
        ELSE acc

\* The body of the loop over item_lists, the key looked up in node
ItemSection(list, node, acc, ctx, doc, id) ==
    LET item_list == DictGet(node, KeyStr(list[1]))
    IN  IF PyTruthy(item_list)
        THEN format_item_list(acc, ctx, doc, id, list[2], list[3], item_list)
        ELSE acc

\* The loop over item_lists from position i; an exception ends it
RECURSIVE ItemSections(_, _, _, _, _, _, _)
ItemSections(i, lists, node, acc, ctx, doc, id) ==
    IF i > Len(lists) \/ acc.raised # "none" THEN acc
    ELSE Only({ItemSections(i + 1, lists, node, a, ctx, doc, id)
               : a \in {ItemSection(lists[i], node, acc, ctx, doc, id)}})

\* ActionDirective.transform_content
ActionTransformContent(acc, ctx, doc, cfg, id, options, p, fs) ==
    Only({IF acc1.raised # "none" THEN acc1
          ELSE ItemSections(1, item_lists(TYP_ACTION), FileYaml(TYP_ACTION, p, fs).yaml,
                            acc1, ctx, doc, id)
          : acc1 \in {BaseFileTransformContent(acc, TYP_ACTION, cfg, id, options, p, fs)}})

\* WorkflowDirective.transform_content, lines 420-428, after the base class's
\* part: the two errors are built and returned to the caller, which drops
\* what transform_content returns
WorkflowItems(acc1, ctx, doc, id, yaml) ==
    LET on_node == PyOr(DictGet(yaml, KeyStr("on")), DictGet(yaml, KeyBool(TRUE)))
    IN  IF on_node = PyNone
        THEN [acc1 EXCEPT !.errors = Append(@, DirectiveError("Workflow has no on node"))]
        ELSE IF on_node.t # "dict" THEN [acc1 EXCEPT !.raised = "AttributeError"]
        ELSE LET call_node == DictGet(on_node, KeyStr("workflow_call"))
             IN  IF call_node = PyNone
                 THEN [acc1 EXCEPT !.errors = Append(@, DirectiveError("Workflow is not callable"))]
                 ELSE IF call_node.t # "dict" THEN [acc1 EXCEPT !.raised = "AttributeError"]
                 ELSE ItemSections(1, item_lists(TYP_WORKFLOW), call_node, acc1, ctx, doc, id)

\* WorkflowDirective.transform_content
WorkflowTransformContent(acc, ctx, doc, cfg, id, options, p, fs) ==
    Only({IF acc1.raised # "none" THEN acc1
          ELSE WorkflowItems(acc1, ctx, doc, id, FileYaml(TYP_WORKFLOW, p, fs).yaml)
          : acc1 \in {BaseFileTransformContent(acc, TYP_WORKFLOW, cfg, id, options, p, fs)}})

\* ObjectDescription.run for a file directive, its signature handled: the
\* host skips add_target_and_index when handle_signature raised ValueError,
\* and calls transform_content
FileRunSigned(st, doc, cfg, typ, options, fs, body, p, i, sig_node) ==
    Only({Only({[st |-> done.st, ctx |-> sig_node.ctx, raised |-> done.raised,
                 caught |-> sig_node.raised, errors |-> done.errors,
                 node |-> [t |-> "desc", objtype |-> typ, sig |-> get_signatures(i.id)[1],
                           fullname |-> sig_node.fullname, content |-> done.content]]
                : done \in {IF typ = TYP_ACTION
                            THEN ActionTransformContent(acc, sig_node.ctx, doc, cfg, i.id,
                                                        options, p, fs)
                            ELSE WorkflowTransformContent(acc, sig_node.ctx, doc, cfg, i.id,
                                                          options, p, fs)}})
          : acc \in {[st |-> IF sig_node.raised = "none"
                             THEN FileAddTargetAndIndex(st, doc, typ, sig_node.name, sig_node)
                             ELSE st,
                      content |-> body, raised |-> "none",
                      errors |-> p.errors \o i.errors]}})

\* ObjectDescription.run for a file directive: get_signatures (the id, made
\* of the arguments or the path), handle_signature, and the rest
FileRun(st, ctx, doc, cfg, typ, arguments, options, fs, body) ==
    Only({Only({Only({FileRunSigned(st, doc, cfg, typ, options, fs, body, p, i, sig_node)
                      : sig_node \in {FileHandleSignature(ctx, typ, i.id,
                                                          get_signatures(i.id)[1])}})
                : i \in {FileId(typ, arguments, p)}})
          : p \in {FilePath(typ, cfg, options, fs)}})

-----------------------------------------------------------------------------
(* The build: documents are read one after the other, their directives run *)
(* in order; references are resolved against the registry.                 *)

\* The registry holds at most this many entries
\* The entries the registry holds at most: in the builds whose references are
\* resolved, and in the builds whose rendering is examined
MaxObjects == 2
MaxRendered == 3

Docs == {"index", "usage"}

NoContext == [r \in Roles |-> None]

State == [objects |-> objects, std_objects |-> std_objects,
          document_ids |-> document_ids]

\* An exception left a directive: the build has stopped
Crashed == out.raised # "none"

\* The host starts to read document d, in this build or, the environment
\* kept, in the next one: a new document node, and env.ref_context cleared
ReadDoc(d) ==
    /\ ~Crashed
    /\ phase' = "reading"
    /\ docname' = d
    /\ document_ids' = {}
    /\ ref_context' = NoContext
    /\ out' = [op |-> "read_doc", raised |-> "none"]
    /\ UNCHANGED <<objects, std_objects, config>>

\* A gh-actions:action or gh-actions:workflow directive is run, the registry
\* having room for its entries
RunFileDirective(typ, arguments, options, fs, body, room) ==
    /\ ~Crashed
    /\ phase = "reading"
    /\ \E r \in {FileRun(State, ref_context, docname, config, typ, arguments, options, fs, body)} :
        /\ Len(r.st.objects) <= room
        /\ objects' = r.st.objects
        /\ std_objects' = r.st.std_objects
        /\ document_ids' = r.st.document_ids
        /\ ref_context' = r.ctx
        /\ out' = [op |-> "file", typ |-> typ, arguments |-> arguments,
                   options |-> options, fs |-> fs, body |-> body,
                   raised |-> r.raised, caught |-> r.caught, errors |-> r.errors,
                   node |-> r.node]
    /\ UNCHANGED <<docname, config, phase>>

\* An item directive written in the document is run
RunItemDirective(typ, sig, options, body, room) ==
    /\ ~Crashed
    /\ phase = "reading"
    /\ \E r \in {ItemRun(State, ref_context, docname, typ, sig, options, body)} :
        /\ Len(r.st.objects) <= room
        /\ objects' = r.st.objects
        /\ std_objects' = r.st.std_objects
        /\ document_ids' = r.st.document_ids
        /\ out' = [op |-> "item", typ |-> typ, sig |-> sig, options |-> options,
                   body |-> body, raised |-> "none", node |-> r.node]
    /\ UNCHANGED <<docname, config, ref_context, phase>>

\* The documents are read: the host goes on to resolve the references
FinishReading ==
    /\ ~Crashed
    /\ phase = "reading"
    /\ phase' = "resolving"
    /\ out' = [op |-> "finish_reading", raised |-> "none"]
    /\ UNCHANGED <<objects, std_objects, docname, document_ids, config, ref_context>>

\* The host resolves a reference of role typ
ResolveXref(fromdocname, typ, target, node) ==
    /\ phase = "resolving"
    /\ \E r \in {resolve_xref(objects, fromdocname, typ, target, node)} :
        out' = [op |-> "resolve_xref", fromdocname |-> fromdocname, typ |-> typ,
                   target |-> target, node |-> node, raised |-> "none",
                   lookup |-> r.target, result |-> r.node, warnings |-> r.warnings]
    /\ UNCHANGED <<objects, std_objects, docname, document_ids, config, ref_context, phase>>

\* The host resolves a reference of the role 'any'
ResolveAnyXref(fromdocname, target, node) ==
    /\ phase = "resolving"
    /\ \E r \in {resolve_any_xref(objects, fromdocname, target, node)} :
        out' = [op |-> "resolve_any_xref", fromdocname |-> fromdocname,
                   target |-> target, node |-> node, raised |-> "none",
                   result |-> r.matches, warnings |-> r.warnings]
    /\ UNCHANGED <<objects, std_objects, docname, document_ids, config, ref_context, phase>>

\* The host lists the objects of the domain
GetObjects ==
    /\ phase = "resolving"
    /\ out' = [op |-> "get_objects", raised |-> "none", result |-> get_objects(objects)]
    /\ UNCHANGED <<objects, std_objects, docname, document_ids, config, ref_context, phase>>

\* The host asks for the full name a reference node stands for
GetFullQualifiedName(node) ==
    /\ phase = "resolving"
    /\ out' = [op |-> "get_full_qualified_name", node |-> node, raised |-> "none",
               result |-> get_full_qualified_name(node)]
    /\ UNCHANGED <<objects, std_objects, docname, document_ids, config, ref_context, phase>>

-----------------------------------------------------------------------------
(* Inputs *)

\* The options of a file directive: path (the components of the relative
\* path given, None when there is none) and x-example
FileOptions(path) == [path |-> path, x_example |-> PyNone]

\* What the file system holds at repo_root / path
NoFile == [action_yml |-> FALSE, action_yaml |-> FALSE, is_file |-> FALSE,
           content |-> PyNone]
FileAt(content) == [action_yml |-> FALSE, action_yaml |-> FALSE, is_file |-> TRUE,
                    content |-> content]
ActionYmlIn(content) == [action_yml |-> TRUE, action_yaml |-> FALSE, is_file |-> FALSE,
                         content |-> content]
ActionYamlIn(content) == [action_yml |-> FALSE, action_yaml |-> TRUE, is_file |-> FALSE,
                          content |-> content]

\* A reference node's attributes
RefNode(action, workflow, target) ==
    [r \in Roles \cup {"reftarget"} |->
        IF r = ROLE_ACTION THEN action
        ELSE IF r = ROLE_WORKFLOW THEN workflow ELSE target]

\* The configuration of a build whose repository is the file system's root
RootConfig ==
    [repo_root |-> <<>>, cwd |-> <<>>, repo_slug |-> <<"owner", "/", "repo">>,
     repo_ref |-> <<"main">>]

\* A callable workflow with one secret
WorkflowYaml ==
    PyDict(<< <<KeyBool(TRUE), PyDict(<< <<KeyStr("workflow_call"),
                PyDict(<< <<KeyStr("secrets"), PyDict(<< << <<"b">>, PyNone >> >>)>> >>)>> >>)>> >>)

\* The file directives of the documents: an action named in the directive,
\* actions named by their directory (a, and the root), a workflow named by
\* its file (a.yml)
FileDirectives ==
    { [typ |-> TYP_ACTION, arguments |-> << <<"a">> >>, options |-> FileOptions(NoPath),
       fs |-> NoFile],
      [typ |-> TYP_ACTION, arguments |-> <<>>, options |-> FileOptions(<< <<"a">> >>),
       fs |-> ActionYmlIn(PyDict(<< <<KeyStr("inputs"), PyDict(<< << <<>>, PyNone >> >>)>> >>))],
      [typ |-> TYP_ACTION, arguments |-> <<>>, options |-> FileOptions(<<>>),
       fs |-> ActionYmlIn(PyDict(<<>>))],
      [typ |-> TYP_WORKFLOW, arguments |-> <<>>, options |-> FileOptions(<< <<"a", ".", "yml">> >>),
       fs |-> FileAt(WorkflowYaml)] }

\* The item directives written in the documents
ItemDirectives ==
    { [typ |-> TYP_ACTION_INPUT, sig |-> <<"b">>],
      [typ |-> TYP_WORKFLOW_SECRET, sig |-> <<"b">>] }

\* The references resolved
RefTypes == {TYP_ACTION_INPUT, TYP_WORKFLOW}
RefTargets == {<<>>, <<"b">>, <<"a", ".", "b">>}
AnyTargets == {<<"b">>, <<"a">>}
RefNodes == {RefNode(None, None, None), RefNode(<<"a">>, <<"a">>, None)}

Init ==
    /\ objects = initial_data.objects
    /\ std_objects = {}
    /\ docname = "index"
    /\ document_ids = {}
    /\ config = RootConfig
    /\ ref_context = NoContext
    /\ phase = "reading"
    /\ out = [op |-> "init", raised |-> "none"]

Next ==
    \/ \E d \in Docs : ReadDoc(d)
    \/ \E f \in FileDirectives : RunFileDirective(f.typ, f.arguments, f.options, f.fs, <<>>, MaxObjects)
    \/ \E i \in ItemDirectives : RunItemDirective(i.typ, i.sig, <<>>, <<>>, MaxObjects)
    \/ FinishReading
    \/ \E typ \in RefTypes, target \in RefTargets, node \in RefNodes :
          ResolveXref("index", typ, target, node)
    \/ \E target \in AnyTargets, node \in RefNodes : ResolveAnyXref("index", target, node)
    \/ GetObjects
    \/ \E node \in {RefNode(<<"a">>, None, <<"b">>), RefNode(None, None, None)} :
          GetFullQualifiedName(node)

Spec == Init /\ [][Next]_vars

-----------------------------------------------------------------------------
(* Inputs of the builds whose rendering is examined *)

\* A mapping whose keys are strings
StrDict(items) == PyDict([i \in 1..Len(items) |-> <<KeyStr(items[i][1]), items[i][2]>>])

\* The configuration of a build of the repository /repo
RepoConfig ==
    [repo_root |-> << <<"repo">> >>, cwd |-> << <<"cwd">> >>,
     repo_slug |-> <<"owner", "/", "repo">>, repo_ref |-> <<"main">>]

\* The workflow_call node of a workflow with a secret, an input and an empty
\* outputs mapping, written in this order
CallNode ==
    StrDict(<< <<"secrets", PyDict(<< << <<"s">>, PyNone >> >>)>>,
               <<"inputs", PyDict(<< << <<"i">>,
                    PyDict(<< <<"required", PyBool(FALSE)>>, <<"default", PyInt(0)>>,
                              <<"type", PyStr("string")>>, <<"description", PyStr("d")>>,
                              <<"deprecationMessage", PyStr("old")>>,
                              <<"foo", PyStr("x")>> >>) >> >>)>>,
               <<"outputs", PyDict(<<>>)>> >>)

\* Workflow files: with no  on  node, with one that is not callable (no
\* workflow_call, and a null one), and callable ones under the key True and
\* under the key 'on'
WorkflowYamls ==
    { StrDict(<< <<"name", PyStr("w")>> >>),
      StrDict(<< <<"on", StrDict(<< <<"push", PyNone>> >>)>> >>),
      PyDict(<< <<KeyBool(TRUE), StrDict(<< <<"workflow_call", PyNone>> >>)>> >>),
      PyDict(<< <<KeyBool(TRUE), StrDict(<< <<"workflow_call", CallNode>> >>)>> >>),
      StrDict(<< <<"on", StrDict(<< <<"workflow_call",
            StrDict(<< <<"outputs", PyDict(<< << <<"o">>,
                 PyDict(<< <<"description", PyStr("")>>,
                           <<"required", PyBool(TRUE)>> >>) >> >>)>> >>)>> >>)>> >>) }

\* Action files: one with a description and two inputs, one with an
\* environment variable and an output written before an empty inputs mapping
ActionYamlInputs ==
    StrDict(<< <<"description", PyStr("An action")>>,
               <<"inputs", PyDict(<< << <<"i">>,
                    PyDict(<< <<"description", PyNone>>, <<"required", PyBool(FALSE)>>,
                              <<"default", PyStr("")>>, <<"type", PyStr("string")>>,
                              <<"deprecationMessage", PyStr("old")>> >>) >>,
                                     << <<"j">>, PyNone >> >>)>> >>)
ActionYamlEnv ==
    StrDict(<< <<"x-env", PyDict(<< << <<"E">>,
                    PyDict(<< <<"default", PyStr("x")>>, <<"required", PyInt(0)>> >>) >> >>)>>,
               <<"outputs", PyDict(<< << <<"o">>,
                    PyDict(<< <<"required", PyBool(TRUE)>>,
                              <<"deprecationMessage", PyStr("old")>> >>) >> >>)>>,
               <<"inputs", PyDict(<<>>)>> >>)

WORKFLOW_YML == <<"wf", ".", "yml">>

\* The file directives: workflows and actions with a name, a path, both or
\* neither; files that are there and files that are not
RenderedFileDirectives ==
    { [typ |-> TYP_WORKFLOW, arguments |-> <<>>, options |-> FileOptions(<<WORKFLOW_YML>>),
       fs |-> FileAt(y)] : y \in WorkflowYamls }
    \cup
    { [typ |-> TYP_WORKFLOW, arguments |-> << <<"w">> >>, options |-> FileOptions(NoPath),
       fs |-> NoFile],
      [typ |-> TYP_WORKFLOW, arguments |-> <<>>, options |-> FileOptions(NoPath),
       fs |-> NoFile],
      [typ |-> TYP_WORKFLOW, arguments |-> << <<"w">> >>, options |-> FileOptions(<<WORKFLOW_YML>>),
       fs |-> FileAt(StrDict(<< <<"name", PyStr("w")>> >>))],
      [typ |-> TYP_WORKFLOW, arguments |-> <<>>, options |-> FileOptions(<<WORKFLOW_YML>>),
       fs |-> NoFile],
      [typ |-> TYP_ACTION, arguments |-> <<>>, options |-> FileOptions(<< <<"act">> >>),
       fs |-> ActionYmlIn(ActionYamlInputs)],
      [typ |-> TYP_ACTION, arguments |-> <<>>, options |-> FileOptions(<< <<"act">> >>),
       fs |-> ActionYamlIn(ActionYamlEnv)],
      [typ |-> TYP_ACTION, arguments |-> << <<"x">> >>, options |-> FileOptions(<< <<"act">> >>),
       fs |-> ActionYmlIn(ActionYamlEnv)],
      [typ |-> TYP_ACTION, arguments |-> << <<"x">> >>, options |-> FileOptions(NoPath),
       fs |-> NoFile],
      [typ |-> TYP_ACTION, arguments |-> <<>>, options |-> FileOptions(NoPath),
       fs |-> NoFile],
      [typ |-> TYP_ACTION, arguments |-> <<>>,
       options |-> FileOptions(<< <<"dir">>, <<"my", ".", "yml">> >>),
       fs |-> FileAt(PyDict(<<>>))],
      [typ |-> TYP_ACTION, arguments |-> <<>>, options |-> FileOptions(<< <<"act">> >>),
       fs |-> NoFile] }

\* The item directives written in the documents, with their options
RenderedItemDirectives ==
    { [typ |-> TYP_ACTION_INPUT, sig |-> <<"i">>,
       options |-> << <<"required", PyStr("true")>>, <<"description", PyStr("d")>> >>] }

InitRender ==
    /\ objects = initial_data.objects
    /\ std_objects = {}
    /\ docname = "index"
    /\ document_ids = {}
    /\ config = RepoConfig
    /\ ref_context = NoContext
    /\ phase = "reading"
    /\ out = [op |-> "init", raised |-> "none"]

\* The directives of one document
NextRender ==
    \/ \E f \in RenderedFileDirectives :
          RunFileDirective(f.typ, f.arguments, f.options, f.fs, <<>>, MaxRendered)
    \/ \E i \in RenderedItemDirectives :
          RunItemDirective(i.typ, i.sig, i.options, <<>>, MaxRendered)

SpecRender == InitRender /\ [][NextRender]_vars

-----------------------------------------------------------------------------
(* Inputs of the builds whose examples are examined *)

\* conf.py may set sphinx_gha_repo_slug to None and sphinx_gha_repo_ref to ''
ExampleConfigs ==
    { [RepoConfig EXCEPT !.repo_slug = slug, !.repo_ref = ref]
      : slug \in {RepoConfig.repo_slug, None}, ref \in {RepoConfig.repo_ref, <<>>} }

\* Action files: with a step name, an input and an environment variable that
\* have example values; with inputs that have none; an empty one; with the
\* top-level mappings of example values
ActionYamlExamples ==
    StrDict(<< <<"x-example-name", PyStr("Run")>>,
               <<"inputs", PyDict(<< << <<"i">>,
                    PyDict(<< <<"x-example", PyStr("v")>> >>) >> >>)>>,
               <<"x-env", PyDict(<< << <<"E">>,
                    PyDict(<< <<"example", PyStr("e")>> >>) >> >>)>> >>)
ActionYamlNoExamples ==
    StrDict(<< <<"inputs", PyDict(<< << <<"i">>,
                    PyDict(<< <<"x-example", PyStr("")>>, <<"example", PyStr("e")>> >>) >>,
                                     << <<"j">>, PyNone >> >>)>> >>)
ActionYamlExampleInputs ==
    StrDict(<< <<"x_example_inputs", PyDict(<< << <<"i">>, PyStr("old") >>,
                                               << <<"k">>, PyStr("w") >> >>)>>,
               <<"inputs", PyDict(<< << <<"i">>,
                    PyDict(<< <<"x-example", PyStr("new")>> >>) >> >>)>> >>)
ActionYamlExampleEnv ==
    StrDict(<< <<"x_example_env", PyDict(<< << <<"E">>, PyStr("e") >> >>)>> >>)

\* The action directives: with no path, with the path of a directory below
\* the repo root, of the repo root itself, of a file, and of nothing
ExampleFileDirectives ==
    { [typ |-> TYP_ACTION, arguments |-> << <<"x">> >>, options |-> FileOptions(NoPath),
       fs |-> NoFile],
      [typ |-> TYP_ACTION, arguments |-> <<>>, options |-> FileOptions(<< <<"act">> >>),
       fs |-> ActionYmlIn(ActionYamlExamples)],
      [typ |-> TYP_ACTION, arguments |-> <<>>, options |-> FileOptions(<<>>),
       fs |-> ActionYmlIn(ActionYamlExamples)],
      [typ |-> TYP_ACTION, arguments |-> <<>>,
       options |-> FileOptions(<< <<"dir">>, <<"act">> >>),
       fs |-> ActionYamlIn(ActionYamlNoExamples)],
      [typ |-> TYP_ACTION, arguments |-> << <<"x">> >>, options |-> FileOptions(<<>>),
       fs |-> ActionYamlIn(PyDict(<<>>))],
      [typ |-> TYP_ACTION, arguments |-> <<>>, options |-> FileOptions(<< <<"act">> >>),
       fs |-> ActionYmlIn(ActionYamlExampleInputs)],
      [typ |-> TYP_ACTION, arguments |-> <<>>, options |-> FileOptions(<<>>),
       fs |-> ActionYmlIn(ActionYamlExampleEnv)],
      [typ |-> TYP_ACTION, arguments |-> <<>>,
       options |-> FileOptions(<< <<"dir">>, <<"my", ".", "yml">> >>),
       fs |-> FileAt(PyDict(<<>>))],
      [typ |-> TYP_ACTION, arguments |-> << <<"x">> >>, options |-> FileOptions(<< <<"act">> >>),
       fs |-> NoFile] }

InitExample ==
    /\ objects = initial_data.objects
    /\ std_objects = {}
    /\ docname = "index"
    /\ document_ids = {}
    /\ config \in ExampleConfigs
    /\ ref_context = NoContext
    /\ phase = "reading"
    /\ out = [op |-> "init", raised |-> "none"]

\* The action directives of one document
NextExample ==
    \E f \in ExampleFileDirectives :
        RunFileDirective(f.typ, f.arguments, f.options, f.fs, <<>>, MaxRendered)

SpecExample == InitExample /\ [][NextExample]_vars

-----------------------------------------------------------------------------
(* Properties of the resolvers and the registry *)

\* The types, targets and reference nodes the resolvers are examined on
CheckTypes == SeqToSet(object_types) \cup {<<"gh", "-", "actions", ":", "action", "-", "input">>}
CheckTargets == {<<>>, <<"a">>, <<"b">>, <<"a", ".", "b">>, <<"a", ".">>}
CheckParents == {None, <<>>, <<"a">>}
CheckNodes == {RefNode(a, w, None) : a \in CheckParents, w \in CheckParents}

\* The positions of the registry's entries of the given name and type
EntriesOf(objs, name, typ) ==
    {i \in 1..Len(objs) : objs[i].name = name /\ objs[i].typ = typ}

Lowest(S) == CHOOSE i \in S : \A j \in S : i <= j

\* resolve_xref found nothing, no warning, when no entry has the name and the
\* type; otherwise it refers to the document and anchor of the first such
\* entry, with one warning exactly when there are two or more
FirstMatch(objs, typ, name, r) ==
    LET M == EntriesOf(objs, name, typ)
    IN  IF M = {}
        THEN r.node = NoRef /\ r.warnings = <<>>
        ELSE /\ r.node.ref
             /\ r.node.refdocname = objs[Lowest(M)].docname
             /\ r.node.refid = objs[Lowest(M)].anchor
             /\ Len(r.warnings) = (IF Cardinality(M) >= 2 THEN 1 ELSE 0)

\* C1: resolve_xref returns None when no registry entry has both the
\* (qualified) target as its name and the role type as its type; otherwise it
\* returns a reference to the document and anchor of the first such entry in
\* registration order, and logs a warning exactly when two or more match.
C1_FirstMatchAndWarning ==
    /\ out.op = "resolve_xref" =>
          FirstMatch(objects, out.typ, out.lookup,
                     [node |-> out.result, warnings |-> out.warnings])
    /\ out.op = "finish_reading" =>
          \A typ \in CheckTypes, target \in CheckTargets, node \in CheckNodes :
             \A r \in {resolve_xref(objects, "index", typ, target, node)} :
                FirstMatch(objects, typ, r.target, r)

\* Two entries of one name and type in different places: the reference goes
\* to the first, with a warning
C1_Witness ==
    /\ out.op = "resolve_xref"
    /\ Len(out.warnings) = 1
    /\ Cardinality(EntriesOf(objects, out.lookup, out.typ)) >= 2
    /\ \E i, j \in EntriesOf(objects, out.lookup, out.typ) :
          i < j /\ objects[i].anchor # objects[j].anchor
                /\ out.result.refid = objects[i].anchor

\* The parent a reference node carries for a role type: its action context
\* for the action-* types, its workflow context for the workflow-* types
ActionItemTypes == {TYP_ACTION_INPUT, TYP_ACTION_OUTPUT, TYP_ACTION_ENVVAR}
WorkflowItemTypes == {TYP_WORKFLOW_INPUT, TYP_WORKFLOW_SECRET, TYP_WORKFLOW_OUTPUT}
ParentOfKind(typ, node) ==
    IF typ \in ActionItemTypes THEN node[ROLE_ACTION]
    ELSE IF typ \in WorkflowItemTypes THEN node[ROLE_WORKFLOW]
    ELSE None

ContainsDot(s) == \E i \in 1..Len(s) : s[i] = "."

\* The name C2 states for the lookup of any dot-free target
StatedLookup(typ, target, node) ==
    IF ContainsDot(target) \/ ParentOfKind(typ, node) \in {None, <<>>}
    THEN target
    ELSE ParentOfKind(typ, node) \o <<".">> \o target

\* The same, an empty target being looked up as the parent alone
LookupName(typ, target, node) ==
    IF target = <<>> /\ ParentOfKind(typ, node) \notin {None, <<>>}
    THEN ParentOfKind(typ, node)
    ELSE StatedLookup(typ, target, node)

\* C2 as stated: every target without a dot, the empty one included, is
\* looked up as 'parent.target' when the node carries the parent of the role
\* type's kind, and unchanged otherwise.
C2_AsStated ==
    out.op = "resolve_xref" => out.lookup = StatedLookup(out.typ, out.target, out.node)

\* C2: a non-empty target without a dot is looked up as 'parent.target',
\* parent being the node's action context for an action-* role type and its
\* workflow context for a workflow-* role type; an empty target is looked up
\* as the parent alone; the target is looked up unchanged when it contains a
\* dot, when the role type is action or workflow, or when the node carries no
\* parent (none, or an empty one) of the required kind.
C2_QualifiedLookup ==
    /\ out.op = "resolve_xref" => out.lookup = LookupName(out.typ, out.target, out.node)
    /\ out.op = "finish_reading" =>
          \A typ \in SeqToSet(object_types), target \in CheckTargets, node \in CheckNodes :
             QualifiedTarget(typ, target, node) = LookupName(typ, target, node)

\* A short target was looked up under its parent's name
C2_Witness ==
    /\ out.op = "resolve_xref"
    /\ out.typ = TYP_ACTION_INPUT
    /\ out.target = <<"b">>
    /\ out.node[ROLE_ACTION] = <<"a">>
    /\ out.lookup = <<"a", ".", "b">>

\* The operations that read the registry
ReadOps == {"get_objects", "resolve_xref", "resolve_any_xref", "get_full_qualified_name"}

\* A reference of role type typ to target, made from node, resolves to the
\* document and anchor of the entry e
ResolvesTo(typ, target, node, e) ==
    \A r \in {resolve_xref(objects, "index", typ, target, node).node} :
        r.ref /\ r.refdocname = e.docname /\ r.refid = e.anchor

\* The round trip for the item N noted as entry e under the parent context P:
\* N from every node whose parent context is P and, P being a parent, 'P.N'
\* from every node
RoundTrip(e, P, N) ==
    /\ \A node \in CheckNodes :
          ParentOfKind(e.typ, node) = P => ResolvesTo(e.typ, N, node, e)
    /\ P \notin {None, <<>>} =>
          \A node \in CheckNodes : ResolvesTo(e.typ, P \o <<".">> \o N, node, e)

\* The name of item N under parent context P
NameUnder(P, N) == IF P \in {None, <<>>} THEN N ELSE P \o <<".">> \o N

\* Entry i is the first of its name and type
FirstOfItsName(i) == \A j \in 1..(i - 1) :
    ~(objects[j].name = objects[i].name /\ objects[j].typ = objects[i].typ)

\* The round trip for every item whose name is one of Names: for the item
\* directive just run, and for every item in the registry whenever the
\* registry may have grown
RoundTripFor(Names) ==
    /\ (out.op = "item" /\ out.sig \in Names /\ FirstOfItsName(Len(objects))) =>
          RoundTrip(objects[Len(objects)],
                    ref_context[IF out.typ \in ActionItemTypes THEN ROLE_ACTION
                                ELSE ROLE_WORKFLOW],
                    out.sig)
    /\ out.op \notin ReadOps =>
       \A i \in 1..Len(objects) : \A P \in CheckParents :
          ( /\ objects[i].typ \in ActionItemTypes \cup WorkflowItemTypes
            /\ objects[i].dispname \in Names
            /\ objects[i].name = NameUnder(P, objects[i].dispname)
            /\ FirstOfItsName(i) )
          => RoundTrip(objects[i], P, objects[i].dispname)

\* The dot-free item names of the documents and the YAML files
ItemNames == {<<>>, <<"a">>, <<"b">>}

\* C3 as stated: the round trip holds for every dot-free item name, the
\* empty one included.
C3_AsStated == RoundTripFor(ItemNames)

\* C3: after an item directive with a non-empty dot-free name N is processed
\* while its parent context is P, a later reference of the same role type
\* written as the short name N from a node whose parent context is P, or as
\* 'P.N' from any context when P is a non-empty parent, resolves to the
\* document and anchor under which the item was noted, provided no earlier
\* entry has the same qualified name and type.
C3_RoundTrip == RoundTripFor(ItemNames \ {<<>>})

\* An item b noted under the action a is referred to by its short name from
\* a node in the context of a
C3_Witness ==
    /\ out.op = "resolve_xref"
    /\ out.typ = TYP_ACTION_INPUT
    /\ out.target = <<"b">>
    /\ out.node[ROLE_ACTION] = <<"a">>
    /\ out.result.ref
    /\ \E i \in 1..Len(objects) :
          /\ objects[i].name = <<"a", ".", "b">>
          /\ objects[i].dispname = <<"b">>
          /\ objects[i].typ = TYP_ACTION_INPUT
          /\ objects[i].anchor = out.result.refid
          /\ objects[i].docname = out.result.refdocname

\* One step of the build, as the registry sees it
AppendOnlyStep ==
    /\ Len(objects') >= Len(objects)
    /\ SubSeq(objects', 1, Len(objects)) = objects
    /\ \A i \in (Len(objects) + 1)..Len(objects') :
          /\ objects'[i].docname = docname
          /\ objects'[i].prio = 1
          /\ objects'[i].anchor \in document_ids'
    /\ out'.op = "item" =>
          /\ Len(objects') = Len(objects) + 1
          /\ objects'[Len(objects')].name = out'.node.fullname
          /\ objects'[Len(objects')].dispname = out'.sig
          /\ objects'[Len(objects')].typ = out'.typ
    /\ (out'.op = "file" /\ out'.caught = "none") =>
          /\ Len(objects') >= Len(objects) + 1
          /\ objects'[Len(objects) + 1].name = out'.node.fullname
          /\ objects'[Len(objects) + 1].typ = out'.typ
    /\ out'.op \in ReadOps => objects' = objects

\* C4: the registry is append-only: each note_object adds one tuple (name,
\* dispname, typ, current document name, anchor, 1) at the end, also when an
\* entry of the same name and type exists; every earlier entry stays, unmodified
\* and in its place; the four read operations leave the registry unchanged.
C4_AppendOnly == [][AppendOnlyStep]_vars

\* An item was noted a second time under the same name and type
C4_Witness ==
    /\ out.op = "item"
    /\ \E i \in 1..(Len(objects) - 1) :
          /\ objects[i].name = objects[Len(objects)].name
          /\ objects[i].typ = objects[Len(objects)].typ
          /\ objects[i].anchor # objects[Len(objects)].anchor

\* The context role of a type: the action context for action and action-*,
\* the workflow context for workflow and workflow-*
ContextOf(typ) ==
    IF typ \in ActionItemTypes \cup {TYP_ACTION} THEN ROLE_ACTION ELSE ROLE_WORKFLOW

\* The name C7 states for item N under the context P: 'P.N' for every id P
NameStated(P, N) == IF P = None THEN N ELSE P \o <<".">> \o N

\* One step of the build, as the reference context and the item names see
\* it, Named(P, N) being the name of item N under the context P
ContextStep(Named(_, _)) ==
    /\ (out'.op = "file" /\ out'.caught = "none") =>
          /\ ref_context'[ContextOf(out'.typ)] = out'.node.sig
          /\ \A r \in Roles \ {ContextOf(out'.typ)} : ref_context'[r] = ref_context[r]
          /\ \A i \in (Len(objects) + 2)..Len(objects') :
                /\ ContextOf(objects'[i].typ) = ContextOf(out'.typ)
                /\ objects'[i].typ # out'.typ
                /\ objects'[i].name = Named(out'.node.sig, objects'[i].dispname)
    /\ (out'.op = "file" /\ out'.caught # "none") => ref_context' = ref_context
    /\ out'.op = "item" =>
          /\ ref_context' = ref_context
          /\ objects'[Len(objects')].dispname = out'.sig
          /\ objects'[Len(objects')].name = Named(ref_context[ContextOf(out'.typ)], out'.sig)
    /\ out'.op \in ReadOps \cup {"finish_reading"} => ref_context' = ref_context

\* C7 as stated: after a file directive with id P, the empty id included,
\* every item N of its kind is registered as 'P.N'.
C7_AsStated == [][ContextStep(NameStated)]_vars

\* C7: a file directive with id P sets the context of its role to P and
\* leaves the other role's context alone; nothing but the start of a document
\* clears it; every later item N of its kind, generated from the YAML or
\* written after it, is registered with the display name N and the qualified
\* name 'P.N' when P is non-empty, and N when P is empty or when no file
\* directive of the parent role was processed.
C7_ParentContext == [][ContextStep(NameUnder)]_vars

\* An item b written after the action a is registered as a.b
C7_Witness ==
    /\ out.op = "item"
    /\ out.typ = TYP_ACTION_INPUT
    /\ out.sig = <<"b">>
    /\ ref_context[ROLE_ACTION] = <<"a">>
    /\ objects[Len(objects)].name = <<"a", ".", "b">>
    /\ objects[Len(objects)].dispname = <<"b">>

\* The object types in the order of their declaration
DeclaredOrder ==
    << <<"action">>, <<"action", "-", "input">>, <<"action", "-", "output">>,
       <<"action", "-", "envvar">>, <<"workflow">>, <<"workflow", "-", "input">>,
       <<"workflow", "-", "secret">>, <<"workflow", "-", "output">> >>

PositionOf(typ) == CHOOSE k \in 1..Len(DeclaredOrder) : DeclaredOrder[k] = typ

\* The entries the target stands for under a type, from a node
EntriesFor(typ, target, node) == EntriesOf(objects, LookupName(typ, target, node), typ)

\* r is the list of one (type, reference) pair for each type under which the
\* target resolves, in the declared order
OnePairPerType(r, target, node) ==
    /\ \A k \in 1..Len(r) :
          /\ \E n \in 1..Len(DeclaredOrder) : DeclaredOrder[n] = r[k][1]
          /\ EntriesFor(r[k][1], target, node) # {}
          /\ r[k][2].ref
          /\ r[k][2].refdocname = objects[Lowest(EntriesFor(r[k][1], target, node))].docname
          /\ r[k][2].refid = objects[Lowest(EntriesFor(r[k][1], target, node))].anchor
    /\ \A k, l \in 1..Len(r) : k < l => PositionOf(r[k][1]) < PositionOf(r[l][1])
    /\ \A n \in 1..Len(DeclaredOrder) :
          EntriesFor(DeclaredOrder[n], target, node) # {}
             => \E k \in 1..Len(r) : r[k][1] = DeclaredOrder[n]

\* C10: resolve_any_xref returns exactly one (type, reference) pair for each
\* of the eight object types under which the target resolves, in the
\* declaration order of the types, and the empty list when it resolves under
\* none; a short target is qualified per type, with the action context for
\* the action-* types and the workflow context for the workflow-* types.
C10_AnyInDeclaredOrder ==
    /\ out.op = "resolve_any_xref" => OnePairPerType(out.result, out.target, out.node)
    /\ out.op = "finish_reading" =>
          \A target \in CheckTargets, node \in CheckNodes :
             OnePairPerType(resolve_any_xref(objects, "index", target, node).matches,
                            target, node)

\* A target that resolves under two types
C10_Witness ==
    /\ out.op = "resolve_any_xref"
    /\ Len(out.result) >= 2
    /\ out.result[1][1] # out.result[2][1]

-----------------------------------------------------------------------------
(* Properties of the rendering *)

\* The YAML a file directive loads: the empty mapping when it has no path
\* (none given, or no action definition found), else the file's content
LoadedYaml(o) ==
    IF o.options.path = NoPath THEN PyDict(<<>>)
    ELSE IF o.typ = TYP_ACTION /\ ~(o.fs.action_yml \/ o.fs.action_yaml \/ o.fs.is_file)
         THEN PyDict(<<>>)
         ELSE o.fs.content

\* The value under a key of a mapping, Absent when the mapping has no such key
Absent == [t |-> "absent"]
ValueAt(d, k) ==
    IF \E i \in 1..Len(d.items) : d.items[i][1] = k
    THEN d.items[CHOOSE i \in 1..Len(d.items) : d.items[i][1] = k][2]
    ELSE Absent

IsMapping(v) == v.t = "dict"

\* The 'on' node of a workflow (under the key 'on' or, that one missing or
\* empty, under the key True) and its workflow_call entry
OnNode(y) ==
    IF IsMapping(ValueAt(y, KeyStr("on"))) /\ ValueAt(y, KeyStr("on")).items # <<>>
    THEN ValueAt(y, KeyStr("on"))
    ELSE ValueAt(y, KeyBool(TRUE))
CallNodeOf(y) ==
    IF IsMapping(OnNode(y)) THEN ValueAt(OnNode(y), KeyStr("workflow_call")) ELSE Absent

\* The sections of items among the children of a content node
RECURSIVE ItemSectionsIn(_)
ItemSectionsIn(content) ==
    IF content = <<>> THEN <<>>
    ELSE (IF Head(content).t = "section" /\ Head(content).title # "Example"
          THEN <<Head(content)>> ELSE <<>>) \o ItemSectionsIn(Tail(content))

\* C5 as stated: a workflow whose YAML has no 'on' node, or whose 'on' node
\* has no workflow_call entry, ends in an error and renders no section of
\* items; a workflow with both ends in none.
C5_AsStated ==
    (out.op = "file" /\ out.typ = TYP_WORKFLOW /\ IsMapping(LoadedYaml(out))) =>
        IF IsMapping(CallNodeOf(LoadedYaml(out)))
        THEN out.raised = "none"
        ELSE out.raised # "none" /\ ItemSectionsIn(out.node.content) = <<>>

\* The id C8 states for a file directive with a path and no argument: the stem
\* of the workflow file, the name of the directory of the action file
StemOf(name) ==
    IF Len(name) >= 3 /\ name[Len(name) - 1] = "." THEN SubSeq(name, 1, Len(name) - 2)
    ELSE name
IdOfPath(o) ==
    IF o.typ = TYP_WORKFLOW THEN StemOf(o.options.path[Len(o.options.path)])
    ELSE IF o.fs.action_yml \/ o.fs.action_yaml THEN o.options.path[Len(o.options.path)]
    ELSE o.options.path[Len(o.options.path) - 1]

\* The directive registered itself under the id, which is its signature and
\* the context of its role
KnownAs(id) ==
    /\ out.caught = "none"
    /\ out.node.sig = id
    /\ ref_context[ContextOf(out.typ)] = id
    /\ \E i \in 1..Len(objects) :
          objects[i].name = id /\ objects[i].dispname = id /\ objects[i].typ = out.typ

\* C8 as stated: the id of a file directive is its argument when it has one,
\* else it is derived from the path; with neither, the directive raises
\* 'Neither a path nor name provided!'.  The id is the signature, the
\* registered name and the parent context.
C8_AsStated ==
    out.op = "file" =>
        IF Len(out.arguments) > 0 THEN KnownAs(out.arguments[1])
        ELSE IF out.options.path # NoPath
        THEN (out.typ = TYP_WORKFLOW \/ out.fs.action_yml \/ out.fs.action_yaml \/ out.fs.is_file)
                => KnownAs(IdOfPath(out))
        ELSE out.raised = "DirectiveError"

\* The known keys of each kind of file, with the titles of their sections
\* and the types of their items, in the order of the sections
KnownKeys(typ) ==
    IF typ = TYP_ACTION
    THEN << [key |-> "inputs", title |-> "Inputs", item |-> TYP_ACTION_INPUT],
            [key |-> "outputs", title |-> "Outputs", item |-> TYP_ACTION_OUTPUT],
            [key |-> "x-env", title |-> "Environment Variables", item |-> TYP_ACTION_ENVVAR] >>
    ELSE << [key |-> "inputs", title |-> "Inputs", item |-> TYP_WORKFLOW_INPUT],
            [key |-> "secrets", title |-> "Secrets", item |-> TYP_WORKFLOW_SECRET],
            [key |-> "outputs", title |-> "Outputs", item |-> TYP_WORKFLOW_OUTPUT] >>

\* The mapping the items of a file directive are taken from: the top level
\* of an action, on.workflow_call of a workflow
ItemSource(o) ==
    IF o.typ = TYP_ACTION THEN LoadedYaml(o) ELSE CallNodeOf(LoadedYaml(o))

\* The known keys that are present with a non-empty mapping
PresentKeys(o) ==
    {n \in 1..Len(KnownKeys(o.typ)) :
        /\ IsMapping(ItemSource(o))
        /\ IsMapping(ValueAt(ItemSource(o), KeyStr(KnownKeys(o.typ)[n].key)))
        /\ ValueAt(ItemSource(o), KeyStr(KnownKeys(o.typ)[n].key)).items # <<>>}

\* The k-th of the present keys
PresentKey(o, k) ==
    CHOOSE n \in PresentKeys(o) : Cardinality({m \in PresentKeys(o) : m <= n}) = k

\* The mapping under the k-th present key
PresentItems(o, k) == ValueAt(ItemSource(o), KeyStr(KnownKeys(o.typ)[PresentKey(o, k)].key)).items

\* The section sec holds one item per key of the mapping, in its order, of
\* the type known, and an item whose value is null has no content
OneItemPerKey(sec, items, typ) ==
    /\ Len(sec.items) = Len(items)
    /\ \A j \in 1..Len(items) :
          /\ sec.items[j].sig = items[j][1]
          /\ sec.items[j].objtype = typ
          /\ items[j][2] = PyNone => sec.items[j].content = <<>>

\* C6: a file directive renders one section per known key that is present
\* with a non-empty mapping and none for an absent or empty key, in the fixed
\* order Inputs, Outputs, Environment Variables (an action, from the YAML's
\* top level) or Inputs, Secrets, Outputs (a workflow, from on.workflow_call);
\* each section holds one item per key of the mapping, in the mapping's
\* order, and an item whose value is null is an item with no metadata.
C6_Sections ==
    (out.op = "file" /\ out.raised = "none") =>
        \A secs \in {ItemSectionsIn(out.node.content)} :
            /\ Len(secs) = Cardinality(PresentKeys(out))
            /\ \A k \in 1..Len(secs) :
                  /\ secs[k].title = KnownKeys(out.typ)[PresentKey(out, k)].title
                  /\ OneItemPerKey(secs[k], PresentItems(out, k),
                                   KnownKeys(out.typ)[PresentKey(out, k)].item)

\* A workflow whose secrets are written before its inputs and whose outputs
\* are empty: Inputs, then Secrets, the secret a null item
C6_Witness ==
    /\ out.op = "file"
    /\ out.raised = "none"
    /\ out.typ = TYP_WORKFLOW
    /\ IsMapping(ItemSource(out))
    /\ ItemSource(out).items[1][1] = KeyStr("secrets")
    /\ ValueAt(ItemSource(out), KeyStr("outputs")) = PyDict(<<>>)
    /\ Len(ItemSectionsIn(out.node.content)) = 2
    /\ ItemSectionsIn(out.node.content)[1].title = "Inputs"
    /\ ItemSectionsIn(out.node.content)[2].title = "Secrets"
    /\ ItemSectionsIn(out.node.content)[2].items[1].content = <<>>

\* The declared fields of each item type, with the names of their rows
DeclaredFields(typ) ==
    IF typ = TYP_ACTION_INPUT THEN <<"required", "default">>
    ELSE IF typ = TYP_ACTION_ENVVAR THEN <<"required">>
    ELSE IF typ \in {TYP_WORKFLOW_INPUT, TYP_WORKFLOW_SECRET}
         THEN <<"required", "default", "type">>
         ELSE <<>>
RowName == [required |-> "Required", default |-> "Default", type |-> "Type"]

\* The metadata has the key, with a value whose string form is not empty
Shown(meta, key) == ValueAt(meta, key) # Absent /\ PyToStr(ValueAt(meta, key)) # ""

\* The rows of the fields from position i that are shown, in their order
RECURSIVE RowsShown(_, _, _)
RowsShown(i, flds, meta) ==
    IF i > Len(flds) THEN <<>>
    ELSE (IF Shown(meta, flds[i])
          THEN <<[t |-> "field", name |-> RowName[flds[i]],
                  value |-> PyToStr(ValueAt(meta, flds[i]))]>>
          ELSE <<>>) \o RowsShown(i + 1, flds, meta)

\* What an item of the type is rendered to: the deprecation admonition of an
\* action-input, the field list when it has rows, the description; nothing
\* else of the metadata
ItemRendered(typ, meta) ==
    (IF typ = TYP_ACTION_INPUT /\ Shown(meta, "deprecationMessage")
     THEN <<[t |-> "admonition", type |-> "deprecated", title |-> "Deprecated",
             message |-> PyToStr(ValueAt(meta, "deprecationMessage"))]>>
     ELSE <<>>)
    \o (IF RowsShown(1, DeclaredFields(typ), meta) # <<>>
        THEN <<[t |-> "field_list", rows |-> RowsShown(1, DeclaredFields(typ), meta)]>>
        ELSE <<>>)
    \o (IF Shown(meta, "description")
        THEN <<[t |-> "markdown", text |-> PyToStr(ValueAt(meta, "description"))]>>
        ELSE <<>>)

\* C9: an item generated from YAML metadata has a field row exactly for each
\* of its type's declared fields that is a key of the metadata with a value
\* of non-empty string form (False and 0 are shown, '' is not), in the
\* declared order; other keys of the metadata are ignored; the field list,
\* when it has rows, comes before the description, and an action-input's
\* deprecation admonition before the field list.
C9_FieldRows ==
    (out.op = "file" /\ out.raised = "none") =>
        \A secs \in {ItemSectionsIn(out.node.content)} :
            \A k \in 1..Len(secs) : \A j \in 1..Len(secs[k].items) :
                /\ j <= Len(PresentItems(out, k))
                /\ secs[k].items[j].content =
                      ItemRendered(secs[k].items[j].objtype,
                                   IF PresentItems(out, k)[j][2] = PyNone THEN PyDict(<<>>)
                                   ELSE PresentItems(out, k)[j][2])

\* An action-input that is not required and deprecated: the admonition, then
\* the field list with the row of the value False, then the description
C9_Witness ==
    /\ out.op = "file"
    /\ out.raised = "none"
    /\ Len(ItemSectionsIn(out.node.content)) >= 1
    /\ \E item \in SeqToSet(ItemSectionsIn(out.node.content)[1].items) :
          /\ item.objtype = TYP_ACTION_INPUT
          /\ Len(item.content) = 3
          /\ item.content[1].t = "admonition"
          /\ item.content[2].t = "field_list"
          /\ item.content[2].rows = <<[t |-> "field", name |-> "Required", value |-> "False"]>>
          /\ item.content[3].t = "markdown"

-----------------------------------------------------------------------------
(* Properties of the example *)

\* The Example sections among the children of a content node
RECURSIVE ExampleSectionsIn(_)
ExampleSectionsIn(content) ==
    IF content = <<>> THEN <<>>
    ELSE (IF Head(content).t = "section" /\ Head(content).title = "Example"
          THEN <<Head(content)>> ELSE <<>>) \o ExampleSectionsIn(Tail(content))

\* The directive has a path and an action definition is found there
DefinitionFound(o) ==
    /\ o.options.path # NoPath
    /\ o.fs.action_yml \/ o.fs.action_yaml \/ o.fs.is_file

\* The action's directory, below the repo root: the path given, or the
\* directory of the file given
ActionDirOf(o) ==
    IF o.fs.action_yml \/ o.fs.action_yaml THEN o.options.path
    ELSE SubSeq(o.options.path, 1, Len(o.options.path) - 1)

RECURSIVE Slashed(_)
Slashed(parts) ==
    IF Len(parts) = 1 THEN parts[1] ELSE parts[1] \o <<"/">> \o Slashed(Tail(parts))

\* The 'uses' value as stated
StatedUses(cfg, dir) ==
    cfg.repo_slug
    \o (IF dir # <<>> THEN <<"/">> \o Slashed(dir) ELSE <<>>)
    \o (IF cfg.repo_ref # <<>> THEN <<"@">> \o cfg.repo_ref ELSE <<>>)

\* At least one item under the key k of the YAML has a non-empty value under e
SuppliesExample(y, k, e) ==
    /\ IsMapping(ValueAt(y, KeyStr(k)))
    /\ \E item \in SeqToSet(ValueAt(y, KeyStr(k)).items) :
          /\ IsMapping(item[2])
          /\ ValueAt(item[2], e) \notin {Absent, PyNone, PyStr("")}

\* The keys of the step a dumped example holds
StepKeys(example) ==
    [i \in 1..Len(example.data[1].items) |-> example.data[1].items[i][1]]

\* The keys as stated: name, uses, with, env in this order, uses always
StatedKeys(named, with, env) ==
    (IF named THEN <<"name">> ELSE <<>>) \o <<"uses">>
    \o (IF with THEN <<"with">> ELSE <<>>) \o (IF env THEN <<"env">> ELSE <<>>)

\* The x-example option's texts the statement is examined with
CheckExampleTexts == {PyStr("- uses: a/b@v1"), PyStr("steps")}

\* The example of a directive whose x-example option is set to text
ExampleWithOption(cfg, f, text) ==
    FileExample(f.typ, cfg, [f.options EXCEPT !.x_example = text],
                FilePath(f.typ, cfg, f.options, f.fs), f.fs)

\* The parts of the statement that are about an action whose slug is set, or
\* that has no path
ExampleWhereSlugIsSet ==
    /\ out.op = "init" =>
          \A f \in ExampleFileDirectives, text \in CheckExampleTexts :
              ExampleWithOption(config, f, text) =
                  [raised |-> "none", errors |-> <<>>, example |-> text]
    /\ (out.op = "file" /\ out.options.path = NoPath) =>
          /\ out.raised = "none"
          /\ ExampleSectionsIn(out.node.content) = <<>>
    /\ (out.op = "file" /\ DefinitionFound(out) /\ config.repo_slug # None) =>
          /\ out.raised = "none"
          /\ Len(ExampleSectionsIn(out.node.content)) = 1
          /\ \A code \in {ExampleSectionsIn(out.node.content)[1].items[1].code},
                y \in {LoadedYaml(out)} :
                /\ code.t = "dump"
                /\ Len(code.data) = 1
                /\ ValueAt(code.data[1], "uses") =
                      [t |-> "text", s |-> StatedUses(config, ActionDirOf(out))]
                /\ (ValueAt(y, KeyStr("x_example_inputs")) = Absent
                    /\ ValueAt(y, KeyStr("x_example_env")) = Absent) =>
                      \E named \in BOOLEAN :
                          StepKeys(code) =
                              StatedKeys(named, SuppliesExample(y, "inputs", "x-example"),
                                         SuppliesExample(y, "x-env", "example"))

\* C11 as stated: the example is the x-example option's text when that is
\* set, and empty when no path is given; otherwise the step's 'uses' is the
\* repo slug, then '/' and the action directory's path relative to the repo
\* root when it is not the root, then '@' and the ref when that is not
\* empty; the keys are name, uses, with, env in this order, 'with' and 'env'
\* there only when an input (an x-env item) supplies an example value (said
\* of an action file without the top-level mappings x_example_inputs and
\* x_example_env, which the statement does not speak of); with a slug of
\* None an error is raised, of whatever kind, and no example is produced.
C11_AsStated ==
    /\ ExampleWhereSlugIsSet
    /\ (out.op = "file" /\ DefinitionFound(out) /\ config.repo_slug = None) =>
          /\ out.raised # "none"
          /\ ExampleSectionsIn(out.node.content) = <<>>

====
